---- MODULE Spec2Model ----
(***************************************************************************)
(* Model of generator_app.py: the /generate handler, the Grok helper       *)
(* call_grok_system, the Jinja rendering of the website page, the bot      *)
(* skeleton writer and make_zip.                                           *)
(*                                                                         *)
(* Text is a sequence of tokens.  A token stands for one character or for  *)
(* a run of characters that contains no character the code looks at        *)
(* ("\n", " ", "<", ">", "&", "/", ".", quotes are always tokens of their  *)
(* own).  A file name is text ("media.png" is <<"media", ".", "png">>), a  *)
(* path is the sequence of its file names from the root.                   *)
(***************************************************************************)
EXTENDS Integers, Sequences, FiniteSets, TLC

VARIABLES GROK_API_KEY, fs, pc, form, work, save_to, content, site_copy,
          bot_texts, calls, resp, netCalls

vars == <<GROK_API_KEY, fs, pc, form, work, save_to, content, site_copy,
          bot_texts, calls, resp, netCalls>>

(* ---------------------------- bounds ---------------------------------- *)
NumUids == 2
NumClients == 2

Requests == 1..NumClients

UidTokens == <<"0a1b2c3d", "4e5f6a7b", "8c9d0e1f", "deadbeef", "cafef00d">>
Uids == {UidTokens[i] : i \in 1..NumUids}

(* ------------------------- text helpers ------------------------------- *)
Contains(s, sub) ==
  \E i \in 1..(Len(s) - Len(sub) + 1) : SubSeq(s, i, i + Len(sub) - 1) = sub

StartsWith(s, pre) == Len(s) >= Len(pre) /\ SubSeq(s, 1, Len(pre)) = pre

\* str.splitlines()[0] of a non-empty string: the text before the first "\n"
FirstLine(s) ==
  IF \E i \in 1..Len(s) : s[i] = "\n"
  THEN LET i == CHOOSE k \in 1..Len(s) :
                   s[k] = "\n" /\ \A j \in 1..(k - 1) : s[j] # "\n"
       IN SubSeq(s, 1, i - 1)
  ELSE s

\* str.lower() on the modelled alphabet
LowerTok(t) ==
  CASE t = "Next" -> "next"
    [] t = "Pepe" -> "pepe"
    [] t = "NEXTPEPE" -> "nextpepe"
    [] t = "NPEPE" -> "npepe"
    [] OTHER -> t

Lower(s) == [i \in 1..Len(s) |-> LowerTok(s[i])]

\* str.replace(' ', '-')
ReplaceSpace(s) == [i \in 1..Len(s) |-> IF s[i] = " " THEN "-" ELSE s[i]]

(* ------------------------- Python values ------------------------------ *)
\* A value of the provider's JSON response (and of what call_grok_system
\* returns): t is the Python type, s the text of a str or the literal of a
\* number, keys/items the keys and values of a dict or the items of a list.
PyStr(s) == [t |-> "str", s |-> s, keys |-> <<>>, items |-> <<>>]
PyNum(lit) == [t |-> "num", s |-> <<lit>>, keys |-> <<>>, items |-> <<>>]
PyNone == [t |-> "none", s |-> <<>>, keys |-> <<>>, items |-> <<>>]
PyList(items) == [t |-> "list", s |-> <<>>, keys |-> <<>>, items |-> items]
PyDict(keys, items) == [t |-> "dict", s |-> <<>>, keys |-> keys, items |-> items]

\* bool(v)
Truthy(v) ==
  CASE v.t = "str" -> v.s # <<>>
    [] v.t = "num" -> v.s # <<"0">>
    [] v.t = "none" -> FALSE
    [] v.t = "list" -> v.items # <<>>
    [] v.t = "dict" -> v.keys # <<>>

\* json.dumps(v) with the default separators
RECURSIVE Dumps(_)
RECURSIVE DumpsItems(_, _)
DumpsItems(keys, items) ==
  IF items = <<>> THEN <<>>
  ELSE (IF keys = <<>> THEN <<>> ELSE <<"\"", Head(keys), "\"", ":", " ">>)
       \o Dumps(Head(items))
       \o (IF Tail(items) = <<>> THEN <<>> ELSE <<",", " ">>)
       \o DumpsItems(IF keys = <<>> THEN <<>> ELSE Tail(keys), Tail(items))
Dumps(v) ==
  CASE v.t = "str" -> <<"\"">> \o v.s \o <<"\"">>
    [] v.t = "num" -> v.s
    [] v.t = "none" -> <<"null">>
    [] v.t = "list" -> <<"[">> \o DumpsItems(<<>>, v.items) \o <<"]">>
    [] v.t = "dict" -> <<"{">> \o DumpsItems(v.keys, v.items) \o <<"}">>

\* The result of evaluating a Python expression: a value, or an exception
\* with its str().
Ok(v) == [exc |-> "", msg |-> "", v |-> v]
Raise(exc, msg) == [exc |-> exc, msg |-> msg, v |-> PyNone]

\* d.get(key, default)
PyGet(d, key, default) ==
  IF d.t # "dict"
  THEN Raise("AttributeError", "object has no attribute 'get'")
  ELSE IF \E i \in 1..Len(d.keys) : d.keys[i] = key
       THEN Ok(d.items[CHOOSE i \in 1..Len(d.keys) : d.keys[i] = key])
       ELSE Ok(default)

\* v[0]
PyIndex0(v) ==
  CASE v.t = "list" -> IF v.items = <<>>
                       THEN Raise("IndexError", "list index out of range")
                       ELSE Ok(v.items[1])
    [] v.t = "str" -> IF v.s = <<>>
                      THEN Raise("IndexError", "string index out of range")
                      ELSE Ok(PyStr(<<v.s[1]>>))
    [] v.t = "dict" -> Raise("KeyError", "0")
    [] OTHER -> Raise("TypeError", "object is not subscriptable")

\* One link of data.get("choices", [{}])[0].get("message", {}).get("content", ""):
\* an exception raised by the links before it ends the evaluation
ThenIndex0(a) == IF a.exc # "" THEN a ELSE PyIndex0(a.v)
ThenGet(a, key, default) == IF a.exc # "" THEN a ELSE PyGet(a.v, key, default)

\* data.get("choices", [{}])[0].get("message", {}).get("content", "")
ExtractContent(data) ==
  ThenGet(ThenGet(ThenIndex0(PyGet(data, "choices", PyList(<<PyDict(<<>>, <<>>)>>))),
                  "message", PyDict(<<>>, <<>>)),
          "content", PyStr(<<>>))

(* ----------------------- the provider's answers ----------------------- *)
\* What one httpx.post to GROK_API_URL can do: fail in transport, time out,
\* answer with a non-success status, answer 200 with a body that is not
\* JSON, or answer 200 with a JSON body.
Transport == [kind |-> "transport", msg |-> "All connection attempts failed", data |-> PyNone]
Timeout == [kind |-> "timeout", msg |-> "The read operation timed out", data |-> PyNone]
BadStatus == [kind |-> "status", msg |-> "Server error '500 Internal Server Error'", data |-> PyNone]
NotJsonBody == [kind |-> "notjson", msg |-> "Expecting value: line 1 column 1 (char 0)", data |-> PyNone]
NoCall == [kind |-> "nocall", msg |-> "", data |-> PyNone]
Body(data) == [kind |-> "json", msg |-> "", data |-> data]

Envelope(contentValue) ==
  PyDict(<<"choices">>,
         <<PyList(<<PyDict(<<"message">>,
                           <<PyDict(<<"content">>, <<contentValue>>)>>)>>)>>)

PlainText == <<"Frogs", " ", "unite", "\n", "Q1", " ", "launch">>
ScriptText == <<"<", "script", ">", "alert(1)", "<", "/", "script", ">">>
JsonText == <<"{", "\"", "HYPE", "\"", ":", " ", "[", "\"", "LFG", "\"", "]", "}">>

JsonBodies ==
  { Envelope(PyStr(PlainText)),
    Envelope(PyStr(ScriptText)),
    Envelope(PyStr(JsonText)),
    Envelope(PyStr(<<>>)),
    Envelope(PyNone),
    Envelope(PyNum("5")),
    PyDict(<<>>, <<>>),
    PyDict(<<"error">>, <<PyStr(<<"rate", " ", "limited">>)>>),
    PyDict(<<"choices">>, <<PyList(<<>>)>>),
    PyDict(<<"choices">>, <<PyNone>>),
    PyDict(<<"choices">>, <<PyList(<<PyDict(<<>>, <<>>)>>)>>),
    PyDict(<<"choices">>, <<PyList(<<PyDict(<<"message">>, <<PyDict(<<>>, <<>>)>>)>>)>>),
    PyDict(<<"choices">>, <<PyList(<<PyDict(<<"message">>, <<PyNone>>)>>)>>),
    PyList(<<>>) }

AllOutcomes == {Transport, Timeout, BadStatus, NotJsonBody} \cup {Body(d) : d \in JsonBodies}

\* The concurrent clients meet a provider that answers
ConcOutcomes == {Body(Envelope(PyStr(PlainText)))}

(* ------------------------- call_grok_system --------------------------- *)
TaskSite == "generate website intro, tagline, roadmap (short) in plain text"
TaskBots == "generate arrays of bot short replies: GREET_NEW_MEMBERS, HYPE, WISDOM, SCHEDULED_BUY in JSON"

NotConfiguredTag == "# GROK_NOT_CONFIGURED"
ErrorTag == "# GROK_ERROR"

\* The result of a call: raised is "" when the call returns, value is what
\* it returns, net tells whether httpx.post was issued.
Returned(v, net) == [raised |-> "", value |-> v, net |-> net]
Propagated(exc, net) == [raised |-> exc, value |-> PyNone, net |-> net]

ErrorString(msg, task, narrative) ==
  PyStr(<<ErrorTag, "\n", msg, "\n", "\n", task, "\n", "\n">> \o narrative)

\* c: the evaluation of the content expression of the return statement
\* ... or json.dumps(data), inside try/except Exception
ReturnContent(c, data, task, narrative) ==
  IF c.exc # ""
  THEN Returned(ErrorString(c.msg, task, narrative), TRUE)
  ELSE IF Truthy(c.v)
       THEN Returned(c.v, TRUE)
       ELSE Returned(PyStr(Dumps(data)), TRUE)

\* Mutant: the handler catches only httpx errors, so an exception raised
\* while picking the response apart reaches the caller.
ReturnContent_narrow_except(c, data, task, narrative) ==
  IF c.exc # ""
  THEN Propagated(c.exc, TRUE)
  ELSE IF Truthy(c.v)
       THEN Returned(c.v, TRUE)
       ELSE Returned(PyStr(Dumps(data)), TRUE)

call_grok_system_narrow_except(key, narrative, task, outcome) ==
  IF key = ""
  THEN Returned(PyStr(<<NotConfiguredTag, "\n", task, "\n", "\n">> \o narrative), FALSE)
  ELSE IF outcome.kind \in {"transport", "timeout", "status"}
       THEN Returned(ErrorString(outcome.msg, task, narrative), TRUE)
       ELSE IF outcome.kind = "notjson"
            THEN Propagated("JSONDecodeError", TRUE)
            ELSE ReturnContent_narrow_except(ExtractContent(outcome.data),
                                             outcome.data, task, narrative)

\* Mutant: the credential check is gone, the call always goes out.
call_grok_system_no_key_check(key, narrative, task, outcome) ==
  IF outcome.kind \in {"transport", "timeout", "status", "notjson", "nocall"}
  THEN Returned(ErrorString(outcome.msg, task, narrative), TRUE)
  ELSE ReturnContent(ExtractContent(outcome.data), outcome.data, task, narrative)

call_grok_system(key, narrative, task, outcome) ==
  IF key = ""
  THEN Returned(PyStr(<<NotConfiguredTag, "\n", task, "\n", "\n">> \o narrative), FALSE)
  ELSE IF outcome.kind \in {"transport", "timeout", "status", "notjson"}
       THEN Returned(ErrorString(outcome.msg, task, narrative), TRUE)
       ELSE ReturnContent(ExtractContent(outcome.data), outcome.data, task, narrative)

(* --------------------------- paths ------------------------------------ *)
TMP_DIR == << <<"tmp">>, <<"generator">> >>

\* pathlib.Path(p).name
Name(p) == p[Len(p)]

\* pathlib.Path(name).suffix: from the last "." on, unless the name starts
\* or ends with it
Suffix(name) ==
  IF \E i \in 1..Len(name) : name[i] = "."
  THEN LET i == CHOOSE k \in 1..Len(name) :
                   name[k] = "." /\ \A j \in (k + 1)..Len(name) : name[j] # "."
       IN IF 1 < i /\ i < Len(name) THEN SubSeq(name, i, Len(name)) ELSE <<>>
  ELSE <<>>

\* str(path) of an absolute path
RECURSIVE PathStr(_)
PathStr(p) == IF p = <<>> THEN <<>> ELSE <<"/">> \o Head(p) \o PathStr(Tail(p))

\* pathlib.Path(text): the names between the "/" of the text
RECURSIVE ParsePath(_)
ParsePath(s) ==
  IF s = <<>> THEN <<>>
  ELSE IF Head(s) = "/" THEN ParsePath(Tail(s))
  ELSE LET n == IF \E i \in 1..Len(s) : s[i] = "/"
                THEN (CHOOSE k \in 1..Len(s) :
                        s[k] = "/" /\ \A j \in 1..(k - 1) : s[j] # "/") - 1
                ELSE Len(s)
       IN <<SubSeq(s, 1, n)>> \o ParsePath(SubSeq(s, n + 1, Len(s)))

IsPrefix(d, p) == Len(d) <= Len(p) /\ SubSeq(p, 1, Len(d)) = d

\* os.path.relpath(full, source_dir) for a path below source_dir
RelPath(full, source_dir) == SubSeq(full, Len(source_dir) + 1, Len(full))

\* the archive name of a relative path: its names joined with "/"
RECURSIVE ArcName(_)
ArcName(rel) ==
  IF rel = <<>> THEN <<>>
  ELSE IF Tail(rel) = <<>> THEN Head(rel)
  ELSE Head(rel) \o <<"/">> \o ArcName(Tail(rel))

(* ------------------------- the file system ---------------------------- *)
\* dirs: the directories; files: the regular files with their bytes.  The
\* field by records the request whose write produced the file.
EmptyFs == [dirs |-> {TMP_DIR}, files |-> {}]

Exists(f, p) == p \in f.dirs \/ \E x \in f.files : x.path = p

\* shutil.rmtree(p)
RmTree(f, p) ==
  [dirs |-> {d \in f.dirs : ~IsPrefix(p, d)},
   files |-> {x \in f.files : ~IsPrefix(p, x.path)}]

\* Path.mkdir(parents=True, exist_ok=True)
MkDirs(f, p) ==
  [f EXCEPT !.dirs = @ \cup {SubSeq(p, 1, n) : n \in (Len(TMP_DIR) + 1)..Len(p)}]

\* open(p, "w").write(data)
WriteFile(f, p, data, r) ==
  [f EXCEPT !.files = {x \in @ : x.path # p}
                        \cup {[path |-> p, data |-> data, by |-> r]}]

ReadFile(f, p) == (CHOOSE x \in f.files : x.path = p).data

(* --------------------------- templates -------------------------------- *)
Lit(text) == [k |-> "lit", s |-> <<text>>, name |-> "", body |-> <<>>]
Var(name) == [k |-> "var", s |-> <<>>, name |-> name, body |-> <<>>]
IfBlock(name, body) == [k |-> "if", s |-> <<>>, name |-> name, body |-> body]

\* The page template: the literal text between the interpolations (the
\* style sheet elided) and the interpolations and conditional blocks
INDEX_HTML_TPL ==
  << Lit("<!doctype html><html lang=\"en\"><head><meta charset=\"utf-8\"><title>"),
     Var("coin_name"),
     Lit(" - Launchpad</title><meta name=\"description\" content=\""),
     Var("tagline"),
     Lit("\"><meta name=\"viewport\" content=\"width=device-width,initial-scale=1\"><style>...</style></head><body><div class=\"card\"><h1>"),
     Var("coin_name"),
     Lit(" <small>("),
     Var("ticker"),
     Lit(")</small></h1><p class=\"lead\">"),
     Var("intro"),
     Lit("</p><div class=\"media\">"),
     IfBlock("image_path",
             << Lit("<img src=\""), Var("image_path"),
                Lit("\" alt=\"hero\" style=\"max-width:100%;border-radius:12px\"/>") >>),
     IfBlock("video_path",
             << Lit("<video controls style=\"max-width:100%;border-radius:12px\"><source src=\""),
                Var("video_path"), Lit("\"></video>") >>),
     Lit("</div><h3>Roadmap</h3><pre>"),
     Var("roadmap"),
     Lit("</pre><div class=\"links\"><a href=\""),
     Var("pump_fun"),
     Lit("\">Buy on Pump.fun</a><a href=\""),
     Var("website_url"),
     Lit("\">Website</a><a href=\""),
     Var("x_url"),
     Lit("\">X</a><a href=\""),
     Var("telegram_url"),
     Lit("\">Telegram</a></div></div></body></html>") >>

\* The fixed texts of the bot skeleton, by their first and last lines
DOCKERFILE_PY == <<"FROM python:3.11-slim", "\n", "CMD [\"python3\",\"main.py\"]", "\n">>
REQUIREMENTS_PY == <<"Flask==3.0.3", "\n", "pyTelegramBotAPI==4.15.4", "\n">>
CONFIG_PY == <<"import os", "\n", "class Config:", "\n">>
BOT_MAIN_PY == <<"import os, logging, time", "\n", "from logic import BotLogic", "\n">>
BOT_LOGIC_PY == <<"import random, logging, time", "\n", "class BotLogic:", "\n">>

\* RENDER_YAML_SERVICE.format(service_name=...)
RENDER_YAML_SERVICE(service_name) ==
  <<"services:", "\n", "  - type: web", "\n", "    name: ">> \o service_name
  \o <<"\n", "    env: docker", "\n">>

\* context.get(key): a key the context lacks is undefined, which Jinja
\* renders as nothing and tests as false
CtxGet(context, key) == IF key \in DOMAIN context THEN context[key] ELSE <<>>

\* {{ value }} in Template(...): jinja2.Template has autoescape off, the
\* value's text is inserted as it is
Interpolate(value) == value

\* Template(tpl).render(**context)
RECURSIVE Render(_, _)
Render(tpl, context) ==
  IF tpl = <<>> THEN <<>>
  ELSE LET part == Head(tpl)
       IN (CASE part.k = "lit" -> part.s
             [] part.k = "var" -> Interpolate(CtxGet(context, part.name))
             [] part.k = "if" -> IF CtxGet(context, part.name) # <<>>
                                 THEN Render(part.body, context)
                                 ELSE <<>>)
          \o Render(Tail(tpl), context)

(* ------------------------- generator core ----------------------------- *)
Website == <<"website">>
IndexHtml == <<"index", ".", "html">>
BotTextsJson == <<"bot_texts", ".", "json">>
Roles == {"main", "sidekick"}
BotDir(kind) == <<"bot_", kind>>

BotFiles(kind) ==
  { [name |-> <<"Dockerfile">>, data |-> DOCKERFILE_PY],
    [name |-> <<"requirements", ".", "txt">>, data |-> REQUIREMENTS_PY],
    [name |-> <<"render", ".", "yaml">>, data |-> RENDER_YAML_SERVICE(<<"npepe-", kind>>)],
    [name |-> <<"config", ".", "py">>, data |-> CONFIG_PY],
    [name |-> <<"main", ".", "py">>, data |-> BOT_MAIN_PY],
    [name |-> <<"logic", ".", "py">>, data |-> BOT_LOGIC_PY] }

\* "copy media if provided": the copy is made when the context has a
\* non-empty image_filename
CopyMedia(context, outdir, f, r) ==
  IF CtxGet(context, "image_filename") # <<>>
  THEN WriteFile(f, outdir \o <<Website, Name(ParsePath(CtxGet(context, "image_filename")))>>,
                 ReadFile(f, ParsePath(CtxGet(context, "image_filename"))), r)
  ELSE f

render_website_files(context, outdir, f, r) ==
  CopyMedia(context, outdir,
            WriteFile(MkDirs(f, outdir \o <<Website>>),
                      outdir \o <<Website, IndexHtml>>,
                      Render(INDEX_HTML_TPL, context), r),
            r)

\* the six writes into folder
WriteBotFiles(folder, kind, f, r) ==
  [f EXCEPT !.files =
     {x \in @ : ~\E b \in BotFiles(kind) : x.path = folder \o <<b.name>>}
     \cup {[path |-> folder \o <<b.name>>, data |-> b.data, by |-> r]
             : b \in BotFiles(kind)}]

render_bot_files(context, outdir, kind, f, r) ==
  WriteBotFiles(outdir \o <<BotDir(kind)>>, kind, MkDirs(f, outdir \o <<BotDir(kind)>>), r)

\* os.walk(d): every regular file below d
RECURSIVE Walk(_, _)
Walk(f, d) ==
  {x \in f.files : Len(x.path) = Len(d) + 1 /\ IsPrefix(d, x.path)}
  \cup UNION {Walk(f, sub) : sub \in {e \in f.dirs : Len(e) = Len(d) + 1 /\ IsPrefix(d, e)}}

\* Mutant: only the files directly in source_dir are packed.
make_zip_top_level_only(source_dir, f) ==
  {[name |-> ArcName(RelPath(x.path, source_dir)), data |-> x.data]
     : x \in {y \in f.files : Len(y.path) = Len(source_dir) + 1
                                /\ IsPrefix(source_dir, y.path)}}

\* The archive: one entry per walked file, named by its relative path
make_zip(source_dir, f) ==
  {[name |-> ArcName(RelPath(x.path, source_dir)), data |-> x.data]
     : x \in Walk(f, source_dir)}

(* --------------------------- the form --------------------------------- *)
Absent == [present |-> FALSE, v |-> <<>>]
Given(text) == [present |-> TRUE, v |-> text]
NoFile == [present |-> FALSE, filename |-> <<>>, data |-> <<>>]
Upload(filename, data) == [present |-> TRUE, filename |-> filename, data |-> data]

PngBytes == <<"\\x89PNG", "0123", "45">>

Narratives == {Absent, Given(<<"community-driven", " ", "frog", " ", "coin">>), Given(ScriptText)}
CoinNames == {Absent, Given(<<"Next", " ", "Pepe", "<", "script", ">">>)}
Tickers == {Absent, Given(<<"NPEPE">>)}
UrlSets == {Absent, Given(<<"https:", "/", "/", "x", ".", "com", "/", "\"", ">", "<", "script", ">">>)}
Files == {NoFile, Upload(<<"frog", ".", "png">>, PngBytes), Upload(<<"README">>, <<>>)}

\* The three URL fields are given together or omitted together
AllForms ==
  {[narrative |-> n, coin_name |-> c, ticker |-> t,
    pump_fun |-> u, x_url |-> u, telegram_url |-> u, file |-> fl]
     : n \in Narratives, c \in CoinNames, t \in Tickers, u \in UrlSets, fl \in Files}

\* The forms of the concurrent clients: every field but the upload is fixed
ConcForms ==
  [narrative : {Given(<<"community-driven", " ", "frog", " ", "coin">>)},
   coin_name : {Given(<<"Next", " ", "Pepe">>)}, ticker : {Given(<<"NPEPE">>)},
   pump_fun : {Absent}, x_url : {Absent}, telegram_url : {Absent},
   file : {NoFile, Upload(<<"frog", ".", "png">>, PngBytes),
           Upload(<<"clip", ".", "mp4">>, <<"ftyp">>)}]

\* Mutant: narrative has a default as well, so no field is required.
Validates_nothing_required(f) == TRUE

\* The parameters declared with Form(...): FastAPI answers 422 without
\* calling the handler when one of them is missing
Validates(f) == f.narrative.present

\* The handler's parameters: a missing field takes its declared default
Param(field, default) == IF field.present THEN field.v ELSE default

Bind(f) ==
  [narrative |-> f.narrative.v,
   coin_name |-> Param(f.coin_name, <<"NEXTPEPE">>),
   ticker |-> Param(f.ticker, <<"NPEPE">>),
   pump_fun |-> Param(f.pump_fun, <<"https:", "/", "/", "pump", ".", "fun", "/">>),
   x_url |-> Param(f.x_url, <<"https:", "/", "/", "x", ".", "com", "/">>),
   telegram_url |-> Param(f.telegram_url, <<"https:", "/", "/", "t", ".", "me", "/">>),
   file |-> f.file]

(* --------------------------- responses -------------------------------- *)
\* archive: the entries of the streamed zip; authors: the requests whose
\* writes produced the packed files; filename: the Content-Disposition name
NoResponse == [status |-> 0, archive |-> {}, authors |-> {}, filename |-> <<>>]
ClientError == [status |-> 422, archive |-> {}, authors |-> {}, filename |-> <<>>]
ServerError == [status |-> 500, archive |-> {}, authors |-> {}, filename |-> <<>>]

WorkDir(uid) == TMP_DIR \o << <<"gen_", uid>> >>

Context(p, site, image_path) ==
  [coin_name |-> p.coin_name,
   ticker |-> p.ticker,
   tagline |-> IF site # <<>> THEN FirstLine(site) ELSE <<>>,
   intro |-> site,
   roadmap |-> site,
   pump_fun |-> p.pump_fun,
   x_url |-> p.x_url,
   telegram_url |-> p.telegram_url,
   website_url |-> <<"https:", "/", "/">> \o ReplaceSpace(Lower(p.coin_name))
                   \o <<".", "example", ".", "app">>,
   image_path |-> IF image_path # <<>> THEN Name(ParsePath(image_path)) ELSE <<>>]

\* The calls a request made, with what the provider did and what came back
Made(o1, o2, c1, c2) ==
  IF c1.raised # ""
  THEN <<[task |-> TaskSite, outcome |-> o1, result |-> c1]>>
  ELSE <<[task |-> TaskSite, outcome |-> o1, result |-> c1],
         [task |-> TaskBots, outcome |-> o2, result |-> c2]>>

\* An exception leaves generate: the request is answered 500
Failed(f, o1, o2, c1, c2) ==
  [fs |-> f, calls |-> Made(o1, o2, c1, c2), site_copy |-> c1.value,
   bot_texts |-> IF c1.raised # "" THEN PyNone ELSE c2.value,
   resp |-> ServerError]

\* z = make_zip(str(work)); return StreamingResponse(z, ...)
Packed(p, uid, f, o1, o2, c1, c2) ==
  [fs |-> f, calls |-> Made(o1, o2, c1, c2), site_copy |-> c1.value,
   bot_texts |-> c2.value,
   resp |-> [status |-> 200,
             archive |-> make_zip(WorkDir(uid), f),
             authors |-> {x.by : x \in Walk(f, WorkDir(uid))},
             filename |-> <<"generated_">> \o p.coin_name \o <<"_", uid, ".", "zip">>]]

\* open(work/"bot_texts.json", "w").write(bot_texts): open() makes the file,
\* write() raises TypeError for a value that is not a str
WriteBotTexts(r, p, uid, f, o1, o2, c1, c2) ==
  IF c2.value.t # "str"
  THEN Failed(WriteFile(f, WorkDir(uid) \o <<BotTextsJson>>, <<>>, r), o1, o2, c1, c2)
  ELSE Packed(p, uid, WriteFile(f, WorkDir(uid) \o <<BotTextsJson>>, c2.value.s, r),
              o1, o2, c1, c2)

\* the three render calls
RenderAll(context, outdir, f, r) ==
  render_bot_files(context, outdir, "sidekick",
    render_bot_files(context, outdir, "main",
      render_website_files(context, outdir, f, r), r), r)

\* generate after its two calls returned c1 and c2; site_copy.splitlines()
\* raises AttributeError for a value that is not a str
AfterCalls(r, p, uid, f, image_path, o1, o2, c1, c2) ==
  IF c1.raised # "" \/ c2.raised # "" \/ c1.value.t # "str"
  THEN Failed(f, o1, o2, c1, c2)
  ELSE WriteBotTexts(r, p, uid,
                     RenderAll(Context(p, c1.value.s, image_path), WorkDir(uid), f, r),
                     o1, o2, c1, c2)

\* generate from "Use Grok to produce website copy" to its return:
\* f is the file system when the handler gets there, image_path the text of
\* the saved upload's path (empty without upload), o1 and o2 what the
\* provider does with the two calls.  Gives the file system, the two call
\* results and the response.
Pipeline(r, key, p, uid, f, image_path, o1, o2) ==
  AfterCalls(r, p, uid, f, image_path, o1, o2,
             call_grok_system(key, p.narrative, TaskSite, o1),
             call_grok_system(key, p.narrative, TaskBots, o2))

\* uid, work; rmtree of an existing work; work.mkdir
Allocate(f, uid) ==
  MkDirs(IF Exists(f, WorkDir(uid)) THEN RmTree(f, WorkDir(uid)) ELSE f, WorkDir(uid))

NetCount(cs) == Cardinality({i \in 1..Len(cs) : cs[i].result.net})

(* ----------------------------- actions -------------------------------- *)
Init ==
  /\ GROK_API_KEY \in {"", "gsk_key"}
  /\ fs = EmptyFs
  /\ pc = [r \in Requests |-> "idle"]
  /\ form = [r \in Requests |-> CHOOSE f \in AllForms : ~f.narrative.present
                /\ ~f.coin_name.present /\ ~f.ticker.present /\ ~f.pump_fun.present
                /\ ~f.x_url.present /\ ~f.telegram_url.present /\ ~f.file.present]
  /\ work = [r \in Requests |-> ""]
  /\ save_to = [r \in Requests |-> <<>>]
  /\ content = [r \in Requests |-> <<>>]
  /\ site_copy = [r \in Requests |-> PyNone]
  /\ bot_texts = [r \in Requests |-> PyNone]
  /\ calls = [r \in Requests |-> <<>>]
  /\ resp = [r \in Requests |-> NoResponse]
  /\ netCalls = 0

\* What the provider can be asked to do: nothing without a credential
Asked(outcomes) == IF GROK_API_KEY = "" THEN {NoCall} ELSE outcomes

Finish(r, res) ==
  /\ fs' = res.fs
  /\ site_copy' = [site_copy EXCEPT ![r] = res.site_copy]
  /\ bot_texts' = [bot_texts EXCEPT ![r] = res.bot_texts]
  /\ calls' = [calls EXCEPT ![r] = res.calls]
  /\ netCalls' = netCalls + NetCount(res.calls)
  /\ resp' = [resp EXCEPT ![r] = res.resp]
  /\ pc' = [pc EXCEPT ![r] = "done"]

\* A request without a required field: answered 422, generate is not called
Reject(r, forms) ==
  /\ pc[r] = "idle"
  /\ \E f \in forms :
       /\ ~Validates(f)
       /\ form' = [form EXCEPT ![r] = f]
  /\ pc' = [pc EXCEPT ![r] = "done"]
  /\ resp' = [resp EXCEPT ![r] = ClientError]
  /\ UNCHANGED <<GROK_API_KEY, fs, work, save_to, content, site_copy, bot_texts,
                 calls, netCalls>>

\* generate for a request without upload: it has no await and runs to its
\* return in one step of the event loop
GenerateNoUpload(r, forms, outcomes) ==
  /\ pc[r] = "idle"
  /\ \E f \in forms, uid \in Uids, o1, o2 \in Asked(outcomes) :
       /\ Validates(f)
       /\ ~f.file.present
       /\ form' = [form EXCEPT ![r] = f]
       /\ work' = [work EXCEPT ![r] = uid]
       /\ \E res \in {Pipeline(r, GROK_API_KEY, Bind(f), uid, Allocate(fs, uid),
                               <<>>, o1, o2)} :
            Finish(r, res)
  /\ UNCHANGED <<GROK_API_KEY, save_to, content>>

\* generate for a request with an upload, up to "await file.read()"
GenerateUpload(r, forms) ==
  /\ pc[r] = "idle"
  /\ \E f \in forms, uid \in Uids :
       /\ Validates(f)
       /\ f.file.present
       /\ form' = [form EXCEPT ![r] = f]
       /\ work' = [work EXCEPT ![r] = uid]
       /\ fs' = Allocate(fs, uid)
       /\ save_to' = [save_to EXCEPT ![r] =
                        WorkDir(uid) \o << <<"media">> \o Suffix(f.file.filename) >>]
  /\ pc' = [pc EXCEPT ![r] = "read"]
  /\ UNCHANGED <<GROK_API_KEY, content, site_copy, bot_texts, calls, resp, netCalls>>

\* generate from the completion of "await file.read()" to its return
GenerateResume(r, outcomes) ==
  /\ pc[r] = "read"
  /\ content' = [content EXCEPT ![r] = form[r].file.data]
  /\ \E o1, o2 \in Asked(outcomes) :
       \E res \in {Pipeline(r, GROK_API_KEY, Bind(form[r]), work[r],
                            WriteFile(fs, save_to[r], form[r].file.data, r),
                            PathStr(save_to[r]), o1, o2)} :
         Finish(r, res)
  /\ UNCHANGED <<GROK_API_KEY, form, work, save_to>>

\* One client, every form and every answer of the provider
Next ==
  \/ Reject(1, AllForms)
  \/ GenerateNoUpload(1, AllForms, AllOutcomes)
  \/ GenerateUpload(1, AllForms)
  \/ GenerateResume(1, AllOutcomes)

Spec == Init /\ [][Next]_vars

\* Every client, requests that overlap at the await
NextConc ==
  \/ \E r \in Requests : GenerateNoUpload(r, ConcForms, ConcOutcomes)
  \/ \E r \in Requests : GenerateUpload(r, ConcForms)
  \/ \E r \in Requests : GenerateResume(r, ConcOutcomes)

SpecConc == Init /\ [][NextConc]_vars

TypeOK ==
  /\ \A r \in Requests : pc[r] \in {"idle", "read", "done"}
  /\ \A r \in Requests : resp[r].status \in {0, 200, 422, 500}
  /\ \A x \in fs.files : \E d \in fs.dirs : d = SubSeq(x.path, 1, Len(x.path) - 1)

(* ------------------- reading a response ------------------------------- *)
Done(r) == pc[r] = "done"
Succeeded(r) == pc[r] = "done" /\ resp[r].status = 200

Entries(r, name) == {e \in resp[r].archive : e.name = name}
HasEntry(r, name) == Entries(r, name) # {}
EntryData(r, name) == (CHOOSE e \in resp[r].archive : e.name = name).data

IndexEntry == <<"website", "/", "index", ".", "html">>
Page(r) == EntryData(r, IndexEntry)

RawScript == <<"<", "script", ">">>
EscapedScript == <<"&lt;", "script", "&gt;">>

\* Text that cannot be a JSON document: it is empty or its first character
\* starts no JSON value
NotJson(text) == text = <<>> \/ Head(text) \notin {"{", "[", "\"", "null", "true", "false", "5"}

(* ------------------------------ C1 ------------------------------------ *)
\* C1: whenever the structured-reply call returned text that is not JSON,
\* every bot_texts.json of the returned archive holds the fixed default
\* reply set (categories greeting, hype, wisdom, scheduled-buy, each a
\* non-empty list) and never the raw Generator text.
C1_DefaultRepliesOnNonJson ==
  LET list(reply) == <<"[", "\"", reply, "\"", "]">>
      DefaultReplies ==
        <<"{", "\"", "GREET_NEW_MEMBERS", "\"", ":", " ">> \o list("Welcome")
        \o <<",", " ", "\"", "HYPE", "\"", ":", " ">> \o list("LFG")
        \o <<",", " ", "\"", "WISDOM", "\"", ":", " ">> \o list("Patience")
        \o <<",", " ", "\"", "SCHEDULED_BUY", "\"", ":", " ">> \o list("Buy time")
        \o <<"}">>
  IN \A r \in Requests :
       (Succeeded(r) /\ bot_texts[r].t = "str" /\ NotJson(bot_texts[r].s))
       => /\ \E e \in resp[r].archive : Name(ParsePath(e.name)) = BotTextsJson
          /\ \A e \in resp[r].archive :
               Name(ParsePath(e.name)) = BotTextsJson
               => e.data = DefaultReplies /\ e.data # bot_texts[r].s

(* ------------------------------ C2 ------------------------------------ *)
\* C2: for a request with an upload the archive has an entry below website/
\* that holds the uploaded bytes under a name with the upload's extension,
\* and the src of the page's img element, resolved against website/, is the
\* name of that entry.
C2_MediaUnderWebsite ==
  \A r \in Requests :
    (Succeeded(r) /\ form[r].file.present)
    => \E e \in resp[r].archive :
         /\ StartsWith(e.name, <<"website", "/">>)
         /\ e.data = form[r].file.data
         /\ Suffix(Name(ParsePath(e.name))) = Suffix(form[r].file.filename)
         /\ Contains(Page(r), INDEX_HTML_TPL[12].body[1].s
                               \o SubSeq(e.name, 3, Len(e.name))
                               \o INDEX_HTML_TPL[12].body[3].s)

(* ------------------------------ C3 ------------------------------------ *)
\* C3: the page never holds the raw markup "<script>", and when a field
\* interpolated into it contains "<script>" the page holds "&lt;script&gt;".
C3_PageEscaped ==
  \A r \in Requests :
    Succeeded(r)
    => LET context == Context(Bind(form[r]), site_copy[r].s, <<>>)
       IN /\ ~Contains(Page(r), RawScript)
          /\ (\E k \in DOMAIN context : Contains(context[k], RawScript))
             => Contains(Page(r), EscapedScript)

(* ------------------------------ C4 ------------------------------------ *)
\* C4: no call of call_grok_system raises, whatever the provider did; after
\* a transport failure, a timeout or a non-success status the call returns
\* the text "# GROK_ERROR\n" followed by the exception's description; and a
\* request both of whose calls failed that way is answered 200.
C4_NeverPropagates ==
  \A r \in Requests :
    /\ \A i \in 1..Len(calls[r]) :
         LET c == calls[r][i]
         IN /\ c.result.raised = ""
            /\ c.outcome.kind \in {"transport", "timeout", "status"}
               => /\ c.result.value.t = "str"
                  /\ StartsWith(c.result.value.s, <<ErrorTag, "\n", c.outcome.msg, "\n">>)
    /\ (Done(r) /\ Validates(form[r])) => Len(calls[r]) = 2
    /\ (Done(r) /\ Len(calls[r]) = 2
        /\ \A i \in 1..2 : calls[r][i].outcome.kind \in {"transport", "timeout", "status"})
       => resp[r].status = 200

\* a request answered 200 after a timeout of the first call and a non-success
\* status of the second
C4_Witness ==
  \E r \in Requests :
    /\ Succeeded(r) /\ Len(calls[r]) = 2
    /\ calls[r][1].outcome.kind = "timeout"
    /\ calls[r][2].outcome.kind = "status"

(* ------------------------------ C5 ------------------------------------ *)
\* C5: two requests suspended at the await have distinct working
\* directories, and every file of a returned archive was written by the
\* request the archive is returned to.
C5_Isolation ==
  /\ \A r1, r2 \in Requests :
       (r1 # r2 /\ pc[r1] = "read" /\ pc[r2] = "read") => work[r1] # work[r2]
  /\ \A r \in Requests : Succeeded(r) => resp[r].authors \subseteq {r}

(* ------------------------------ C6 ------------------------------------ *)
\* C6: every returned archive has website/index.html and, for each role,
\* bot_<role>/ with config, main, logic, Dockerfile, requirements,
\* render.yaml and bot_texts.json.
C6_ArtifactLayout ==
  \A r \in Requests :
    Succeeded(r)
    => /\ HasEntry(r, IndexEntry)
       /\ \A kind \in Roles :
            \A name \in { <<"config", ".", "py">>, <<"main", ".", "py">>,
                          <<"logic", ".", "py">>, <<"Dockerfile">>,
                          <<"requirements", ".", "txt">>, <<"render", ".", "yaml">>,
                          <<"bot_texts", ".", "json">> } :
              HasEntry(r, <<"bot_", kind, "/">> \o name)

(* ------------------------------ C7 ------------------------------------ *)
NoPipelineWork(r) ==
  /\ resp[r].status = 422
  /\ resp[r].archive = {}
  /\ work[r] = ""
  /\ calls[r] = <<>>
  /\ \A x \in fs.files : x.by # r

\* C7 as stated: a request that omits narrative, coin_name or ticker is
\* answered with a client error and causes no pipeline work.
C7_Original ==
  \A r \in Requests :
    (Done(r) /\ (~form[r].narrative.present \/ ~form[r].coin_name.present
                 \/ ~form[r].ticker.present))
    => NoPipelineWork(r)

\* C7 amended: a request that omits narrative is answered with a client
\* error and causes no pipeline work; a request that has narrative is never
\* answered with a client error, and where it omits coin_name or ticker the
\* handler runs with the defaults NEXTPEPE and NPEPE.
C7_Amended ==
  \A r \in Requests :
    Done(r)
    => /\ ~form[r].narrative.present => NoPipelineWork(r)
       /\ form[r].narrative.present
          => /\ resp[r].status # 422
             /\ work[r] # ""
             /\ (Succeeded(r) /\ ~form[r].coin_name.present)
                => /\ resp[r].filename = <<"generated_", "NEXTPEPE", "_", work[r], ".", "zip">>
                   /\ Contains(Page(r), INDEX_HTML_TPL[1].s \o <<"NEXTPEPE">>
                                         \o INDEX_HTML_TPL[3].s)
             /\ (Succeeded(r) /\ ~form[r].ticker.present)
                => Contains(Page(r), INDEX_HTML_TPL[7].s \o <<"NPEPE">> \o INDEX_HTML_TPL[9].s)

\* a request without narrative was answered 422
C7_Witness ==
  \E r \in Requests : Done(r) /\ ~form[r].narrative.present /\ resp[r].status = 422

(* ------------------------------ C8 ------------------------------------ *)
HasKey(d, key) == d.t = "dict" /\ \E i \in 1..Len(d.keys) : d.keys[i] = key
At(d, key) == d.items[CHOOSE i \in 1..Len(d.keys) : d.keys[i] = key]

\* the envelope carries a first completion with a message with content
HasContent(data) ==
  /\ HasKey(data, "choices")
  /\ At(data, "choices").t = "list" /\ At(data, "choices").items # <<>>
  /\ HasKey(At(data, "choices").items[1], "message")
  /\ HasKey(At(At(data, "choices").items[1], "message"), "content")

ContentOf(data) == At(At(At(data, "choices").items[1], "message"), "content")

\* the shapes the claim lists as absent
ShapeAbsent(data) ==
  /\ data.t = "dict"
  /\ \/ ~HasKey(data, "choices")
     \/ At(data, "choices") = PyList(<<>>)
     \/ /\ At(data, "choices").t = "list" /\ At(data, "choices").items # <<>>
        /\ At(data, "choices").items[1].t = "dict"
        /\ \/ ~HasKey(At(data, "choices").items[1], "message")
           \/ /\ At(At(data, "choices").items[1], "message").t = "dict"
              /\ ~HasKey(At(At(data, "choices").items[1], "message"), "content")
     \/ HasContent(data) /\ ContentOf(data) = PyStr(<<>>)

\* C8: after a successful response the call returns the first completion's
\* message content when the envelope has it, and the serialized response
\* when there is no 'choices' key, 'choices' is empty, the first choice has
\* no 'message', the message has no 'content', or the content is empty.
C8_ContentOrRawResponse ==
  \A r \in Requests :
    \A i \in 1..Len(calls[r]) :
      LET c == calls[r][i]
      IN c.outcome.kind = "json"
         => /\ (HasContent(c.outcome.data) /\ ContentOf(c.outcome.data).t = "str"
                /\ ContentOf(c.outcome.data).s # <<>>)
               => c.result.value = ContentOf(c.outcome.data)
            /\ ShapeAbsent(c.outcome.data)
               => c.result.value = PyStr(Dumps(c.outcome.data))

(* ------------------------------ C9 ------------------------------------ *)
\* C9: when a request is answered with an archive, the archive's entries
\* are exactly the regular files below the working directory at that
\* moment: each entry is named by the file's path relative to the working
\* directory, joined with "/", and holds the file's bytes; no two entries
\* share a name and no entry stands for the working directory itself.
C9_ZipRoundTrip ==
  [][\A r \in Requests :
       (resp[r].status # 200 /\ resp'[r].status = 200)
       => /\ {[path |-> WorkDir(work'[r]) \o ParsePath(e.name), data |-> e.data]
                : e \in resp'[r].archive}
             = {[path |-> x.path, data |-> x.data]
                  : x \in {y \in fs'.files : IsPrefix(WorkDir(work'[r]), y.path)}}
          /\ Cardinality(resp'[r].archive)
             = Cardinality({y \in fs'.files : IsPrefix(WorkDir(work'[r]), y.path)})
          /\ \A e \in resp'[r].archive :
               /\ e.name # <<>>
               /\ e.name = ArcName(ParsePath(e.name))
               /\ \A i \in 1..Len(e.name) : e.name[i] # "\\"]_vars

\* an archive was returned that packs both levels of the tree and the media
\* files two requests saved into it
C9_Witness ==
  \E r \in Requests :
    /\ Succeeded(r)
    /\ HasEntry(r, IndexEntry)
    /\ HasEntry(r, <<"media", ".", "png">>)
    /\ HasEntry(r, <<"media", ".", "mp4">>)

(* ------------------------------ C10 ----------------------------------- *)
\* C10: without a credential every call returns a text that starts with
\* "# GROK_NOT_CONFIGURED" and holds the task and then the narrative, no
\* outbound request is issued, every valid request is answered 200, and
\* both the page and the bot text file of the archive hold the marker.
C10_PlaceholderWithoutCredential ==
  GROK_API_KEY = ""
  => /\ netCalls = 0
     /\ \A r \in Requests :
          /\ \A i \in 1..Len(calls[r]) :
               LET c == calls[r][i]
               IN /\ ~c.result.net
                  /\ c.result.raised = ""
                  /\ c.result.value.t = "str"
                  /\ c.result.value.s =
                       <<NotConfiguredTag, "\n", c.task, "\n", "\n">> \o form[r].narrative.v
                  /\ c.task \in {TaskSite, TaskBots}
                  /\ c.result.value.s # <<>>
          /\ (Done(r) /\ form[r].narrative.present)
             => /\ Len(calls[r]) = 2
                /\ resp[r].status = 200
                /\ Contains(Page(r), <<NotConfiguredTag>>)
                /\ \E e \in resp[r].archive :
                     /\ Name(ParsePath(e.name)) = BotTextsJson
                     /\ Contains(e.data, <<NotConfiguredTag>>)

\* a request was answered without a credential
C10_Witness ==
  GROK_API_KEY = "" /\ \E r \in Requests : Succeeded(r) /\ Len(calls[r]) = 2

====
